---- MODULE Spec2Model ----
(***************************************************************************)
(* Model of linedify: the conversation session store (session.py), the     *)
(* Dify agent client (dify.py) and the LINE event pipeline                 *)
(* (integration.py).                                                       *)
(*                                                                         *)
(* Spec       : the session store driven by get/set/expire/list calls and  *)
(*              a non-decreasing clock.                                    *)
(* SpecParse  : the streamed-response parser applied to every bounded      *)
(*              stream of lines.                                           *)
(* SpecInvoke : DifyAgent.invoke applied to every bounded request and      *)
(*              HTTP outcome.                                              *)
(* SpecPipeline : LineDifyIntegrator.process_request run over one delivery *)
(*              of events, with every outcome of the hooks, the agent, the *)
(*              store and the reply call.                                  *)
(***************************************************************************)
EXTENDS Integers, Sequences, FiniteSets, TLC

\* ------------------------------------------------------------------ bounds
MaxTime == 2
TimeoutT == 1
MaxFrags == 4
MaxCount == 1
MaxEvents == 2

\* ------------------------------------------------------------ value domains
Null == "NULL"
UserIds == {"", "u1", "u2"}
ConvIds == {Null, "c1"}
AgentKeys == {"default", "Emily"}
States == {Null, "selecting_type"}
Timeouts == {0, TimeoutT}

VARIABLES store, now, timeout, call,
          stream, parsed,
          req, resp, outcome,
          config, events, pc, loc, cur, issued

storeVars == <<store, now, timeout, call>>
parseVars == <<stream, parsed>>
invokeVars == <<req, resp, outcome>>
pipeVars == <<config, events, pc, loc, cur, issued>>
vars == <<store, now, timeout, call, stream, parsed, req, resp, outcome,
          config, events, pc, loc, cur, issued>>

\* ===================================================================
\* session.py
\* ===================================================================

\* ConversationSession.__init__: updated_at defaults to the creation time.
ConversationSession(user_id, t) ==
    [user_id |-> user_id, conversation_id |-> Null, updated_at |-> t,
     agent_key |-> "default", state |-> Null]

NoSession ==
    [user_id |-> "", conversation_id |-> Null, updated_at |-> 0,
     agent_key |-> Null, state |-> Null]

\* ConversationSessionModel: one row of table conversation_sessions.
ConversationSessionModel(id, user_id) ==
    [id |-> id, user_id |-> user_id, conversation_id |-> Null, updated_at |-> 0,
     is_expired |-> FALSE, agent_key |-> "default", state |-> Null]

\* "if not user_id": None and "" are both falsy.
IsEmptyIdNever(user_id) == FALSE

IsEmptyId(user_id) == user_id = "" \/ user_id = Null

\* session.query(ConversationSessionModel).filter_by(user_id=user_id)
Query(rows, user_id) == {r \in rows : r.user_id = user_id}

\* .first()
First(S) == CHOOSE r \in S : TRUE

\* db_session.merge(model): insert, or replace the row with the same primary key.
MergeAdd(rows, m) == rows \cup {m}

Merge(rows, m) == {r \in rows : r.id # m.id} \cup {m}

\* the timeout test of get_session
IsTimedOutAlways(row, t, T) == t - row.updated_at > T

IsTimedOutNever(row, t, T) == FALSE

IsTimedOut(row, t, T) == T > 0 /\ t - row.updated_at > T

RowSession(row) ==
    [user_id |-> row.user_id, conversation_id |-> row.conversation_id,
     updated_at |-> row.updated_at, agent_key |-> row.agent_key, state |-> row.state]

\* get_session, for a non-empty user_id
GetSession(rows, user_id, t, T) ==
    LET q == Query(rows, user_id) IN
    IF q = {} THEN ConversationSession(user_id, t)
    ELSE IF First(q).is_expired THEN ConversationSession(user_id, t)
    ELSE IF IsTimedOut(First(q), t, T) THEN ConversationSession(user_id, t)
    ELSE RowSession(First(q))

\* set_session, for a non-empty user_id: the rows after the commit
SetSessionNoStamp(rows, s, t) ==
    LET q == Query(rows, s.user_id)
        m == IF q = {} THEN ConversationSessionModel(s.user_id, s.user_id) ELSE First(q)
    IN Merge(rows, [m EXCEPT !.conversation_id = s.conversation_id,
                             !.updated_at = s.updated_at,
                             !.agent_key = s.agent_key,
                             !.state = s.state])

SetSession(rows, s, t) ==
    LET q == Query(rows, s.user_id)
        m == IF q = {} THEN ConversationSessionModel(s.user_id, s.user_id) ELSE First(q)
    IN Merge(rows, [m EXCEPT !.conversation_id = s.conversation_id,
                             !.updated_at = t,
                             !.agent_key = s.agent_key,
                             !.state = s.state])

\* expire_session, for a non-empty user_id: the rows after the commit
ExpireSessionDelete(rows, user_id) == rows \ Query(rows, user_id)

ExpireSession(rows, user_id) ==
    LET q == Query(rows, user_id) IN
    IF q = {} THEN rows
    ELSE (rows \ {First(q)}) \cup {[First(q) EXCEPT !.is_expired = TRUE]}

\* order_by(updated_at.desc()): a descending sequence of the rows of S
RECURSIVE OrderByUpdatedAtDesc(_)
OrderByUpdatedAtDesc(S) ==
    IF S = {} THEN <<>>
    ELSE LET m == CHOOSE r \in S : \A o \in S : o.updated_at <= r.updated_at
         IN <<m>> \o OrderByUpdatedAtDesc(S \ {m})

\* .limit(count)
Limit(seq, count) == SubSeq(seq, 1, IF Len(seq) < count THEN Len(seq) ELSE count)

\* list.reverse()
Reverse(seq) == [i \in 1..Len(seq) |-> seq[Len(seq) + 1 - i]]

\* get_user_conversations
GetUserConversations(rows, user_id, count) ==
    LET db_sessions == Limit(OrderByUpdatedAtDesc(Query(rows, user_id)), count)
    IN Reverse([i \in 1..Len(db_sessions) |-> RowSession(db_sessions[i])])

\* ------------------------------------------------------------------
\* The last store call, as seen by the caller: its arguments, its result
\* and the clock value it read.
NoCall ==
    [op |-> "none", user_id |-> "", ok |-> TRUE, arg |-> NoSession,
     ret |-> NoSession, list |-> <<>>, at |-> 0]

StoreInit ==
    /\ store = {}
    /\ now = 0
    /\ timeout \in Timeouts
    /\ call = NoCall

\* datetime.now(timezone.utc) between two calls: the clock does not go back.
Tick ==
    /\ now < MaxTime
    /\ now' = now + 1
    /\ UNCHANGED <<store, timeout, call>>

get_session(user_id) ==
    /\ IF IsEmptyId(user_id)
       THEN call' = [NoCall EXCEPT !.op = "get", !.user_id = user_id, !.ok = FALSE, !.at = now]
       ELSE call' = [NoCall EXCEPT !.op = "get", !.user_id = user_id, !.at = now,
                                   !.ret = GetSession(store, user_id, now, timeout)]
    /\ UNCHANGED <<store, now, timeout>>

set_session(session_data) ==
    /\ IF IsEmptyId(session_data.user_id)
       THEN /\ call' = [NoCall EXCEPT !.op = "set", !.user_id = session_data.user_id,
                                      !.ok = FALSE, !.at = now]
            /\ store' = store
       ELSE /\ call' = [NoCall EXCEPT !.op = "set", !.user_id = session_data.user_id,
                                      !.arg = session_data, !.at = now]
            /\ store' = SetSession(store, session_data, now)
    /\ UNCHANGED <<now, timeout>>

expire_session(user_id) ==
    /\ IF IsEmptyId(user_id)
       THEN /\ call' = [NoCall EXCEPT !.op = "expire", !.user_id = user_id, !.ok = FALSE, !.at = now]
            /\ store' = store
       ELSE /\ call' = [NoCall EXCEPT !.op = "expire", !.user_id = user_id, !.at = now]
            /\ store' = ExpireSession(store, user_id)
    /\ UNCHANGED <<now, timeout>>

get_user_conversations(user_id, count) ==
    /\ call' = [NoCall EXCEPT !.op = "list", !.user_id = user_id, !.at = now,
                              !.list = GetUserConversations(store, user_id, count)]
    /\ UNCHANGED <<store, now, timeout>>

\* The sessions a caller can hand to set_session: built earlier, so stamped
\* no later than the present.
SessionArgs ==
    [user_id : UserIds, conversation_id : ConvIds, updated_at : 0..now,
     agent_key : AgentKeys, state : States]

GetCall == \E u \in UserIds : get_session(u)
SetCall == \E s \in SessionArgs : set_session(s)
ExpireCall == \E u \in UserIds : expire_session(u)
ListCall == \E u \in UserIds, n \in 0..MaxCount : get_user_conversations(u, n)

StoreNext ==
    \/ Tick /\ UNCHANGED <<parseVars, invokeVars, pipeVars>>
    \/ GetCall /\ UNCHANGED <<parseVars, invokeVars, pipeVars>>
    \/ SetCall /\ UNCHANGED <<parseVars, invokeVars, pipeVars>>
    \/ ExpireCall /\ UNCHANGED <<parseVars, invokeVars, pipeVars>>
    \/ ListCall /\ UNCHANGED <<parseVars, invokeVars, pipeVars>>

\* ===================================================================
\* dify.py: the streamed-response parser
\* ===================================================================

Absent == "ABSENT"
EmptyMeta == "{}"

\* One line of response.content: what precedes the payload, and the payload
\* (the [DONE] sentinel, text that is not JSON, or a JSON object).
Payload(kind, event, answer, conversation_id, metadata, message) ==
    [kind |-> kind, event |-> event, answer |-> answer,
     conversation_id |-> conversation_id, metadata |-> metadata, message |-> message]

DonePayload == Payload("done", Absent, <<>>, Absent, Absent, Absent)
GarbagePayload == Payload("garbage", Absent, <<>>, Absent, Absent, Absent)

\* chunk.get("answer", "") reads a missing answer as "", so <<>> stands for both.
Answers == {<<>>, <<"a">>, <<"b">>}
Tokens == {Absent, "c1", "c2"}
Metadatas == {Absent, EmptyMeta, "m1", "m2"}
ErrorMessages == {Absent, "boom", "bang"}

ObjectPayloads ==
    {Payload("object", "message", a, c, Absent, Absent) : a \in Answers, c \in Tokens}
    \cup {Payload("object", "message_end", <<>>, Absent, m, Absent) : m \in Metadatas}
    \cup {Payload("object", "error", <<>>, Absent, Absent, e) : e \in ErrorMessages}
    \cup {Payload("object", "tts_message", <<>>, Absent, Absent, Absent)}

Lines ==
    {[prefix |-> "data:", payload |-> p] : p \in ObjectPayloads \cup {DonePayload, GarbagePayload}}
    \cup {[prefix |-> "event:", payload |-> DonePayload]}

\* The streams of n lines.
Streams(n) == [1..n -> Lines]

\* The locals of process_agent_response and how its loop has ended so far.
ParseStart ==
    [status |-> "run", conversation_id |-> "", response_text |-> <<>>,
     metadata |-> Absent, err |-> "", errmsg |-> ""]

\* bool(chunk.get("metadata"))
Truthy(metadata) == metadata # Absent /\ metadata # EmptyMeta

\* event_type == "message"
OnMessageKeepFirst(acc, chunk) ==
    [acc EXCEPT !.response_text = acc.response_text \o chunk.answer,
                !.conversation_id = IF acc.conversation_id # "" THEN acc.conversation_id
                                    ELSE IF chunk.conversation_id = Absent THEN ""
                                    ELSE chunk.conversation_id]

OnMessage(acc, chunk) ==
    [acc EXCEPT !.response_text = acc.response_text \o chunk.answer,
                !.conversation_id = IF chunk.conversation_id = Absent
                                    THEN acc.conversation_id
                                    ELSE chunk.conversation_id]

\* event_type == "message_end"
OnMessageEnd(acc, chunk) ==
    IF Truthy(chunk.metadata) THEN [acc EXCEPT !.metadata = chunk.metadata] ELSE acc

\* event_type == "error"
OnErrorLatch(acc, chunk) ==
    [acc EXCEPT !.err = "Dify API Error",
                !.errmsg = IF chunk.message = Absent THEN "Unknown error" ELSE chunk.message]

OnError(acc, chunk) ==
    [acc EXCEPT !.status = "raised", !.err = "Dify API Error",
                !.errmsg = IF chunk.message = Absent THEN "Unknown error" ELSE chunk.message]

\* if json_str == "[DONE]": break
OnDoneContinue(acc) == acc

OnDone(acc) == [acc EXCEPT !.status = "done"]

\* One pass of the body of "async for line in response.content".
ProcessLine(acc, line) ==
    IF line.prefix # "data:" THEN acc
    ELSE IF line.payload.kind = "done" THEN OnDone(acc)
    ELSE IF line.payload.kind = "garbage"
         THEN [acc EXCEPT !.status = "raised", !.err = "JSONDecodeError"]
    ELSE IF line.payload.event = "message" THEN OnMessage(acc, line.payload)
    ELSE IF line.payload.event = "message_end" THEN OnMessageEnd(acc, line.payload)
    ELSE IF line.payload.event = "error" THEN OnError(acc, line.payload)
    ELSE acc

RECURSIVE ParseLoop(_, _, _)
ParseLoop(lines, i, acc) ==
    IF i > Len(lines) \/ acc.status # "run" THEN acc
    ELSE ParseLoop(lines, i + 1, ProcessLine(acc, lines[i]))

\* What a response processor hands back: a (conversation_id, response_text,
\* response_data) tuple, or an exception and nothing else.
Returned(conversation_id, response_text, metadata) ==
    [status |-> "returned", conversation_id |-> conversation_id,
     response_text |-> response_text, metadata |-> metadata, err |-> "", errmsg |-> ""]

Raised(err, errmsg) ==
    [status |-> "raised", conversation_id |-> "", response_text |-> <<>>,
     metadata |-> Absent, err |-> err, errmsg |-> errmsg]

NotParsed ==
    [status |-> "idle", conversation_id |-> "", response_text |-> <<>>,
     metadata |-> Absent, err |-> "", errmsg |-> ""]

\* process_agent_response
ProcessAgentResponse(lines) ==
    LET acc == ParseLoop(lines, 1, ParseStart) IN
    IF acc.status = "raised" THEN Raised(acc.err, acc.errmsg)
    ELSE Returned(acc.conversation_id, acc.response_text, acc.metadata)

ParseInit == (\E n \in 0..MaxFrags : stream \in Streams(n)) /\ parsed = NotParsed

process_agent_response ==
    /\ parsed.status = "idle"
    /\ parsed' = ProcessAgentResponse(stream)
    /\ UNCHANGED stream

\* ===================================================================
\* dify.py: DifyAgent.invoke
\* ===================================================================

DifyTypes == {"Agent", "Chatbot", "TextGenerator", "Workflow"}

\* The arguments of invoke and the configuration of the agent.
Requests ==
    [type : DifyTypes, verbose : BOOLEAN,
     conversation_id : {Null, "", "c1"}, text : {Null, "", "hi"},
     image : {Null, "png"}, inputs : {Null, "kv"}, start_as_new : BOOLEAN]

\* A response body: a JSON document, text that is not JSON, or an event
\* stream; response.json() succeeds on the first only, and response.content
\* yields its lines.
Doc(conversation_id, answer, metadata) ==
    [conversation_id |-> conversation_id, answer |-> answer, metadata |-> metadata]

NoDoc == Doc(Absent, <<>>, Absent)
PlainLine == [prefix |-> "", payload |-> GarbagePayload]
DataLine(p) == [prefix |-> "data:", payload |-> p]

Bodies ==
    {[kind |-> "json", doc |-> d, lines |-> <<PlainLine>>] :
        d \in {Doc("c2", <<"a">>, "m1"), Doc(Absent, <<>>, Absent), Doc("c2", <<"b">>, EmptyMeta)}}
    \cup {[kind |-> "text", doc |-> NoDoc, lines |-> <<PlainLine>>]}
    \cup {[kind |-> "sse", doc |-> NoDoc, lines |-> l] :
        l \in {<<DataLine(Payload("object", "message", <<"a">>, "c2", Absent, Absent)),
                 DataLine(Payload("object", "message_end", <<>>, Absent, "m1", Absent)),
                 DataLine(DonePayload)>>,
               <<DataLine(Payload("object", "message", <<"a">>, Absent, Absent, Absent)),
                 DataLine(Payload("object", "error", <<>>, Absent, Absent, "boom"))>>,
               <<DataLine(GarbagePayload)>>,
               <<DataLine(DonePayload)>>}}

Statuses == {200, 201, 304, 404, 500}

\* What the remote side does: the outcome of POST /files/upload (an id, an
\* empty id, or a failure) and the status and body of POST /chat-messages.
Responses == [upload : {"file1", "", "raise"}, status : Statuses, body : Bodies]

\* make_payloads, given what upload_image returned
NoPayloads ==
    [inputs |-> Absent, query |-> Absent, response_mode |-> Absent,
     files |-> Absent, conversation_id |-> Absent]

MakePayloadsNoPlaceholder(type, text, image, inputs, uploaded_image_id) ==
    [inputs |-> IF inputs = Null THEN "{}" ELSE inputs,
     query |-> IF text = Null THEN "" ELSE text,
     response_mode |-> IF type = "Agent" THEN "streaming" ELSE "blocking",
     files |-> IF image # Null /\ uploaded_image_id # "" THEN uploaded_image_id ELSE Absent,
     conversation_id |-> Absent]

MakePayloads(type, text, image, inputs, uploaded_image_id) ==
    LET query == IF text = Null THEN "" ELSE text
        attach == image # Null /\ uploaded_image_id # ""
    IN [inputs |-> IF inputs = Null THEN "{}" ELSE inputs,
        query |-> IF attach /\ query = "" THEN "." ELSE query,
        response_mode |-> IF type = "Agent" THEN "streaming" ELSE "blocking",
        files |-> IF attach THEN uploaded_image_id ELSE Absent,
        conversation_id |-> Absent]

\* "if conversation_id and not start_as_new"
AttachConversationAlways(payloads, conversation_id, start_as_new) ==
    IF conversation_id # Null /\ conversation_id # ""
    THEN [payloads EXCEPT !.conversation_id = conversation_id]
    ELSE payloads

AttachConversation(payloads, conversation_id, start_as_new) ==
    IF conversation_id # Null /\ conversation_id # "" /\ ~start_as_new
    THEN [payloads EXCEPT !.conversation_id = conversation_id]
    ELSE payloads

\* process_chatbot_response
ProcessChatbotResponse(body, verbose) ==
    IF body.kind # "json" THEN Raised("ContentTypeError", "")
    ELSE Returned(IF body.doc.conversation_id = Absent THEN "" ELSE body.doc.conversation_id,
                  body.doc.answer,
                  IF Truthy(body.doc.metadata) THEN body.doc.metadata ELSE Absent)

\* process_textgenerator_response
ProcessTextGeneratorAsChatbot(body, verbose) == ProcessChatbotResponse(body, verbose)

ProcessTextGeneratorResponse(body, verbose) ==
    IF verbose /\ body.kind # "json" THEN Raised("ContentTypeError", "")
    ELSE Raised("Exception", "TextGenerator is not supported for now.")

\* process_workflow_response
ProcessWorkflowResponse(body, verbose) ==
    IF verbose /\ body.kind # "json" THEN Raised("ContentTypeError", "")
    ELSE Raised("Exception", "Workflow is not supported for now.")

\* self.response_processors[self.type](response)
ResponseProcessor(type, body, verbose) ==
    CASE type = "Agent" -> ProcessAgentResponse(body.lines)
      [] type = "Chatbot" -> ProcessChatbotResponse(body, verbose)
      [] type = "TextGenerator" -> ProcessTextGeneratorResponse(body, verbose)
      [] type = "Workflow" -> ProcessWorkflowResponse(body, verbose)

\* response.raise_for_status()
RaisesForStatus(status) == status >= 400

\* What invoke did: its result, whether the request was posted and with
\* which payloads, and whether a response processor ran.
Outcome(result, posted, payloads, processed) ==
    [result |-> result, posted |-> posted, payloads |-> payloads, processed |-> processed]

NotInvoked == Outcome(NotParsed, FALSE, NoPayloads, FALSE)

Invoke(r, w) ==
    IF r.image # Null /\ w.upload = "raise"
    THEN Outcome(Raised("UploadError", ""), FALSE, NoPayloads, FALSE)
    ELSE LET payloads == AttachConversation(
                             MakePayloads(r.type, r.text, r.image, r.inputs, w.upload),
                             r.conversation_id, r.start_as_new)
         IN IF w.status # 200 /\ w.body.kind # "json"
            THEN Outcome(Raised("ContentTypeError", ""), TRUE, payloads, FALSE)
            ELSE IF w.status # 200 /\ RaisesForStatus(w.status)
            THEN Outcome(Raised("ClientResponseError", ""), TRUE, payloads, FALSE)
            ELSE Outcome(ResponseProcessor(r.type, w.body, r.verbose), TRUE, payloads, TRUE)

InvokeInit == req \in Requests /\ resp \in Responses /\ outcome = NotInvoked

invoke ==
    /\ outcome = NotInvoked
    /\ outcome' = Invoke(req, resp)
    /\ UNCHANGED <<req, resp>>

\* ===================================================================
\* integration.py: LineDifyIntegrator
\* ===================================================================

Deliveries == {"d1", "d2"}

\* self._event_handlers and self._message_parsers after __init__
EventHandlers == {"message"}
MessageParsers == {"text", "image", "sticker", "location"}

\* An event of a delivery: its type, for a message event the type of its
\* message and the user of its source, and its reply token (0: the event has
\* no reply_token attribute).
EventShapes ==
    {[type |-> "message", kind |-> k, user_id |-> "u1", has_token |-> TRUE] :
        k \in {"text", "image", "video"}}
    \cup {[type |-> "message", kind |-> "text", user_id |-> "", has_token |-> TRUE],
          [type |-> "follow", kind |-> Absent, user_id |-> "u1", has_token |-> TRUE],
          [type |-> "unfollow", kind |-> Absent, user_id |-> "u1", has_token |-> FALSE]}

TokenOf(d, i) == (IF d = "d1" THEN 0 ELSE 10) + i

MkEvent(shape, token) ==
    [type |-> shape.type, kind |-> shape.kind, user_id |-> shape.user_id,
     reply_token |-> IF shape.has_token THEN token ELSE 0]

\* self.webhook_parser.parse(request_body, signature)
EventLists(d) ==
    UNION {{[i \in 1..n |-> MkEvent(f[i], TokenOf(d, i))] : f \in [1..n -> EventShapes]} :
           n \in 0..MaxEvents}

\* The constructor arguments dify_agents (its keys) and dify_type.
Configs == [dify_agents : {{"default"}, {"default", "Emily"}, {"Emily"}},
            dify_type : {"Chatbot", "Agent"}]

\* Reply messages: a list of messages, each of a kind and with a text.
Msg(kind, text) == [kind |-> kind, text |-> text]

\* The locals of process_request, process_event and handle_message_event.
NoLocals ==
    [conversation_session |-> NoSession, loaded |-> FALSE,
     request_text |-> Null, image_bytes |-> Null, inputs |-> Null,
     result |-> NotParsed, ex |-> "", reply_messages |-> <<>>]

\* What has happened to the event being processed.
NoRecord ==
    [validation |-> "none", handler |-> "none", failedAt |-> "none",
     hook |-> <<>>, hookRaised |-> FALSE, sends |-> <<>>,
     invoked |-> FALSE, wrote |-> FALSE, agent |-> "", handled |-> FALSE,
     posted |-> FALSE, sent |-> Absent]

\* agent_key = conversation_session.agent_key or "default"
\* agent_info = self.dify_agents.get(agent_key, self.dify_agents["default"])
\* (the second argument of get is evaluated before the call)
AgentInfo(dify_agents, agent_key) ==
    LET key == IF agent_key = Null \/ agent_key = "" THEN "default" ELSE agent_key IN
    IF "default" \notin dify_agents THEN [ok |-> FALSE, key |-> ""]
    ELSE IF key \in dify_agents THEN [ok |-> TRUE, key |-> key]
    ELSE [ok |-> TRUE, key |-> "default"]

\* conversation_session = await self.conversation_session_store.get_session(user_id)
BindSessionForget(l, session) == l

BindSession(l, session) == [l EXCEPT !.conversation_session = session, !.loaded = TRUE]

\* parse_message = self._message_parsers.get(event.message.type)
HasParserAlways(kind) == TRUE

HasParser(kind) == kind \in MessageParsers

\* if validation_messages: return validation_messages
ShortCircuitsNever(validation_messages) == FALSE

ShortCircuits(validation_messages) == validation_messages # <<>>

\* process_request, after the reply_message call: "except Exception" logs the
\* failure, and the loop goes on with the next event.
AfterSendPropagate(p, sendOk) ==
    IF sendOk THEN [i |-> p.i + 1, at |-> "next"] ELSE [i |-> p.i, at |-> "crashed"]

AfterSend(p, sendOk) == [i |-> p.i + 1, at |-> "next"]

\* The message parsers: (request_text, image_bytes) of a message.
ParsedText(kind) == IF kind = "image" THEN Null ELSE "hi"
ParsedImage(kind) == IF kind = "image" THEN "png" ELSE Null

\* The conversation id the remote agent issues to the requests of delivery d.
AgentToken(d) == IF d = "d1" THEN "c2" ELSE "c3"

\* What the remote agent answers to one invocation of the pipeline.
PipelineResponses(d) ==
    {[upload |-> "file1", status |-> 200,
      body |-> [kind |-> "json", doc |-> Doc(AgentToken(d), <<"a">>, "m1"),
                lines |-> <<PlainLine>>]],
     [upload |-> "file1", status |-> 200,
      body |-> [kind |-> "sse", doc |-> NoDoc,
                lines |-> <<DataLine(Payload("object", "message", <<"a">>, AgentToken(d),
                                             Absent, Absent)),
                            DataLine(Payload("object", "message_end", <<>>, Absent, "m1", Absent)),
                            DataLine(DonePayload)>>]],
     [upload |-> "file1", status |-> 500,
      body |-> [kind |-> "text", doc |-> NoDoc, lines |-> <<PlainLine>>]],
     [upload |-> "raise", status |-> 200,
      body |-> [kind |-> "json", doc |-> Doc(AgentToken(d), <<"a">>, "m1"),
                lines |-> <<PlainLine>>]]}

\* conversation_id, text, data = await dify_agent.invoke(...): an exception
\* raised by invoke leaves the try block, a result goes on to the session write.
AfterInvokeAlwaysSave(result) == "save"

AfterInvoke(result) == IF result.status = "raised" THEN "inner_except" ELSE "save"

\* conversation_session.conversation_id = conversation_id, and
\* session_data.updated_at = datetime.now(timezone.utc) of set_session
WriteBackKeep(session, conversation_id, t) == [session EXCEPT !.updated_at = t]

WriteBack(session, conversation_id, t) ==
    [session EXCEPT !.conversation_id = conversation_id, !.updated_at = t]

\* The rows the store holds when a delivery arrives.
PipelineStores ==
    {{}} \cup {{[ConversationSessionModel("u1", "u1") EXCEPT
                    !.conversation_id = "c1", !.agent_key = k]} :
               k \in {"default", "Emily", Null}}
         \cup {ExpireSession({[ConversationSessionModel("u1", "u1") EXCEPT
                                  !.conversation_id = "c1"]}, "u1")}

Event(d) == events[d][pc[d].i]

\* replyToken=event.reply_token (0 when the event has no such attribute)
ReplyTokenFirst(d) == events[d][1].reply_token

ReplyToken(d) == Event(d).reply_token

Goto(d, at) == pc' = [pc EXCEPT ![d].at = at]

\* An exception raised at a step of the event: where it is caught.
Throw(d, step, ex, handler) ==
    /\ Goto(d, handler)
    /\ loc' = [loc EXCEPT ![d].ex = ex]
    /\ cur' = [cur EXCEPT ![d].failedAt = step]

\* process_request: "for event in events", the loop is over
FinishDelivery(d) ==
    /\ pc[d].at = "next"
    /\ pc[d].i > Len(events[d])
    /\ Goto(d, "done")
    /\ UNCHANGED <<config, events, loc, cur, issued, storeVars>>

\* process_request: "for event in events", the next event
StartEvent(d) ==
    /\ pc[d].at = "next"
    /\ pc[d].i <= Len(events[d])
    /\ Goto(d, "validate")
    /\ loc' = [loc EXCEPT ![d] = NoLocals]
    /\ cur' = [cur EXCEPT ![d] = NoRecord]
    /\ UNCHANGED <<config, events, issued, storeVars>>

\* process_event: await self._validate_event(event), then the handler lookup
ValidateEvent(d) ==
    /\ pc[d].at = "validate"
    /\ \/ \E validation_messages \in {<<>>, <<Msg("validation", <<>>)>>} :
            LET returned == IF validation_messages = <<>> THEN "empty" ELSE "reply" IN
            IF ShortCircuits(validation_messages)
            THEN /\ Goto(d, "send")
                 /\ loc' = [loc EXCEPT ![d].reply_messages = validation_messages]
                 /\ cur' = [cur EXCEPT ![d].validation = returned, ![d].handled = TRUE]
            ELSE /\ Goto(d, IF Event(d).type \in EventHandlers
                            THEN "parse" ELSE "default_handler")
                 /\ cur' = [cur EXCEPT ![d].validation = returned,
                                       ![d].handler = IF Event(d).type \in EventHandlers
                                                      THEN Event(d).type ELSE "default"]
                 /\ loc' = loc
       \/ /\ Goto(d, "outer_except")
          /\ loc' = [loc EXCEPT ![d].ex = "validate_event"]
          /\ cur' = [cur EXCEPT ![d].validation = "raise", ![d].failedAt = "validate"]
    /\ UNCHANGED <<config, events, issued, storeVars>>

\* event_handler_default: an event of a type without handler gets no reply
EventHandlerDefault(d) ==
    /\ pc[d].at = "default_handler"
    /\ Goto(d, "send")
    /\ loc' = [loc EXCEPT ![d].reply_messages = <<>>]
    /\ cur' = [cur EXCEPT ![d].handled = TRUE]
    /\ UNCHANGED <<config, events, issued, storeVars>>

\* handle_message_event: the parser lookup and await parse_message(event.message)
ParseMessage(d) ==
    /\ pc[d].at = "parse"
    /\ IF ~HasParser(Event(d).kind)
       THEN Throw(d, "parse", "Unhandled message type", "inner_except")
       ELSE \/ /\ Goto(d, "load")
               /\ loc' = [loc EXCEPT ![d].request_text = ParsedText(Event(d).kind),
                                     ![d].image_bytes = ParsedImage(Event(d).kind)]
               /\ cur' = cur
            \/ Throw(d, "parse", "parse_message", "inner_except")
    /\ UNCHANGED <<config, events, issued, storeVars>>

\* handle_message_event: await get_session(user_id)
LoadSession(d) ==
    /\ pc[d].at = "load"
    /\ IF IsEmptyId(Event(d).user_id)
       THEN Throw(d, "load", "user_id is required", "inner_except")
       ELSE /\ Goto(d, "inputs")
            /\ loc' = [loc EXCEPT ![d] = BindSession(loc[d],
                          GetSession(store, Event(d).user_id, now, timeout))]
            /\ cur' = cur
    /\ UNCHANGED <<config, events, issued, storeVars>>

\* handle_message_event: await self._make_inputs(conversation_session)
MakeInputs(d) ==
    /\ pc[d].at = "inputs"
    /\ \/ /\ Goto(d, "invoke")
          /\ loc' = [loc EXCEPT ![d].inputs = "kv"]
          /\ cur' = cur
       \/ Throw(d, "inputs", "make_inputs", "inner_except")
    /\ UNCHANGED <<config, events, issued, storeVars>>

\* handle_message_event: the agent lookup and await dify_agent.invoke(...)
InvokeAgent(d) ==
    /\ pc[d].at = "invoke"
    /\ LET info == AgentInfo(config.dify_agents, loc[d].conversation_session.agent_key)
           r == [type |-> config.dify_type, verbose |-> FALSE,
                 conversation_id |-> loc[d].conversation_session.conversation_id,
                 text |-> loc[d].request_text, image |-> loc[d].image_bytes,
                 inputs |-> loc[d].inputs, start_as_new |-> FALSE]
       IN IF ~info.ok
          THEN Throw(d, "lookup", "KeyError", "inner_except")
          ELSE \E w \in PipelineResponses(d) :
                 LET o == Invoke(r, w) IN
                 /\ Goto(d, AfterInvoke(o.result))
                 /\ IF o.result.status = "raised"
                    THEN /\ loc' = [loc EXCEPT ![d].ex = o.result.err]
                         /\ cur' = [cur EXCEPT ![d].failedAt = "invoke", ![d].invoked = TRUE,
                                               ![d].agent = info.key,
                                               ![d].posted = o.posted,
                                               ![d].sent = o.payloads.conversation_id]
                    ELSE /\ loc' = [loc EXCEPT ![d].result = o.result]
                         /\ cur' = [cur EXCEPT ![d].invoked = TRUE, ![d].agent = info.key,
                                               ![d].posted = o.posted,
                                               ![d].sent = o.payloads.conversation_id]
    /\ UNCHANGED <<config, events, issued, storeVars>>

\* handle_message_event: conversation_session.conversation_id = conversation_id
\* and await set_session(conversation_session)
SaveSession(d) ==
    /\ pc[d].at = "save"
    /\ LET session == WriteBack(loc[d].conversation_session,
                                loc[d].result.conversation_id, now)
       IN \/ /\ Goto(d, "reply")
             /\ store' = SetSession(store, session, now)
             /\ loc' = [loc EXCEPT ![d].conversation_session = session]
             /\ cur' = [cur EXCEPT ![d].wrote = TRUE]
             /\ issued' = [issued EXCEPT ![session.user_id] = session.conversation_id]
          \/ /\ Goto(d, "inner_except")
             /\ store' = store
             /\ loc' = [loc EXCEPT ![d].conversation_session = session,
                                   ![d].ex = "set_session"]
             /\ cur' = [cur EXCEPT ![d].failedAt = "save"]
             /\ issued' = issued
    /\ UNCHANGED <<config, events, now, timeout, call>>

\* handle_message_event: await self._to_reply_message(text, data, conversation_session)
ToReplyMessage(d) ==
    /\ pc[d].at = "reply"
    /\ \/ /\ Goto(d, "send")
          /\ \E r \in {<<Msg("reply", loc[d].result.response_text)>>, <<>>} :
                loc' = [loc EXCEPT ![d].reply_messages = r]
          /\ cur' = [cur EXCEPT ![d].handled = TRUE]
       \/ Throw(d, "reply", "to_reply_message", "inner_except")
    /\ UNCHANGED <<config, events, issued, storeVars>>

\* handle_message_event, "except Exception": the error hook gets the session
\* loaded so far; when the hook raises, the exception is logged and dropped.
HandlerExcept(d) ==
    /\ pc[d].at = "inner_except"
    /\ Goto(d, "send")
    /\ \E hookOk \in BOOLEAN :
         /\ loc' = [loc EXCEPT ![d].reply_messages =
                        IF hookOk THEN <<Msg("error", <<>>)>> ELSE <<>>]
         /\ cur' = [cur EXCEPT ![d].hook = Append(@, [null |-> ~loc[d].loaded,
                                                      session |-> loc[d].conversation_session]),
                               ![d].hookRaised = ~hookOk]
    /\ UNCHANGED <<config, events, issued, storeVars>>

\* process_event, "except Exception": return await self._to_error_message(event, ex)
ProcessEventExcept(d) ==
    /\ pc[d].at = "outer_except"
    /\ \E hookOk \in BOOLEAN :
         /\ Goto(d, IF hookOk THEN "send" ELSE "crashed")
         /\ loc' = [loc EXCEPT ![d].reply_messages =
                        IF hookOk THEN <<Msg("error", <<>>)>> ELSE <<>>]
         /\ cur' = [cur EXCEPT ![d].hook = Append(@, [null |-> TRUE, session |-> NoSession]),
                               ![d].hookRaised = ~hookOk]
    /\ UNCHANGED <<config, events, issued, storeVars>>

\* process_request: the reply_message call in its try block, then the next event
SendReply(d) ==
    /\ pc[d].at = "send"
    /\ IF loc[d].reply_messages # <<>> /\ ReplyToken(d) # 0
       THEN \E sendOk \in BOOLEAN :
              /\ pc' = [pc EXCEPT ![d] = AfterSend(pc[d], sendOk)]
              /\ cur' = [cur EXCEPT ![d].sends = Append(@, [token |-> ReplyToken(d),
                                                           messages |-> loc[d].reply_messages,
                                                           ok |-> sendOk])]
       ELSE /\ pc' = [pc EXCEPT ![d] = AfterSend(pc[d], TRUE)]
            /\ cur' = cur
    /\ UNCHANGED <<config, events, loc, issued, storeVars>>

PipeInit ==
    /\ config \in Configs
    /\ \E es \in EventLists("d1") : events = [d \in Deliveries |-> IF d = "d1" THEN es ELSE <<>>]
    /\ pc = [d \in Deliveries |-> [i |-> 1, at |-> "next"]]
    /\ loc = [d \in Deliveries |-> NoLocals]
    /\ cur = [d \in Deliveries |-> NoRecord]
    /\ issued = [u \in UserIds |-> Null]
    /\ store \in PipelineStores
    /\ now = 0 /\ timeout = 0 /\ call = NoCall

\* process_request for delivery d
ProcessRequest(d) ==
    \/ FinishDelivery(d)
    \/ StartEvent(d)
    \/ ValidateEvent(d)
    \/ EventHandlerDefault(d)
    \/ ParseMessage(d)
    \/ LoadSession(d)
    \/ MakeInputs(d)
    \/ InvokeAgent(d)
    \/ SaveSession(d)
    \/ ToReplyMessage(d)
    \/ HandlerExcept(d)
    \/ ProcessEventExcept(d)
    \/ SendReply(d)

PipeIdle ==
    config = "idle" /\ events = <<>> /\ pc = <<>> /\ loc = <<>> /\ cur = <<>> /\ issued = <<>>

StoreIdle == store = {} /\ now = 0 /\ timeout = 0 /\ call = NoCall
ParseIdle == stream = <<>> /\ parsed = NotParsed
InvokeIdle == req = "idle" /\ resp = "idle" /\ outcome = NotInvoked

Init == StoreInit /\ ParseIdle /\ InvokeIdle /\ PipeIdle
Next == StoreNext
Spec == Init /\ [][Next]_vars

InitParse == StoreIdle /\ ParseInit /\ InvokeIdle /\ PipeIdle
NextParse == process_agent_response /\ UNCHANGED <<storeVars, invokeVars, pipeVars>>
SpecParse == InitParse /\ [][NextParse]_vars

InitInvoke == StoreIdle /\ ParseIdle /\ InvokeInit /\ PipeIdle
NextInvoke == invoke /\ UNCHANGED <<storeVars, parseVars, pipeVars>>
SpecInvoke == InitInvoke /\ [][NextInvoke]_vars

InitPipeline == PipeInit /\ ParseIdle /\ InvokeIdle
NextPipeline == ProcessRequest("d1") /\ UNCHANGED <<parseVars, invokeVars>>
SpecPipeline == InitPipeline /\ [][NextPipeline]_vars

\* Two deliveries of one event each, handled by two process_request tasks on
\* one event loop: a task can be suspended at each of its awaits.
ConcurrentInit ==
    /\ config \in Configs
    /\ \E e1 \in EventShapes, e2 \in EventShapes :
          events = [d \in Deliveries |->
                       <<MkEvent(IF d = "d1" THEN e1 ELSE e2, TokenOf(d, 1))>>]
    /\ pc = [d \in Deliveries |-> [i |-> 1, at |-> "next"]]
    /\ loc = [d \in Deliveries |-> NoLocals]
    /\ cur = [d \in Deliveries |-> NoRecord]
    /\ issued = [u \in UserIds |-> Null]
    /\ store \in PipelineStores
    /\ now = 0 /\ timeout = 0 /\ call = NoCall

InitConcurrent == ConcurrentInit /\ ParseIdle /\ InvokeIdle
NextConcurrent == (\E d \in Deliveries : ProcessRequest(d)) /\ UNCHANGED <<parseVars, invokeVars>>
SpecConcurrent == InitConcurrent /\ [][NextConcurrent]_vars

\* ===================================================================
\* Properties of the session store (specification Spec)
\* ===================================================================

HasRow(u) == Query(store, u) # {}
Row(u) == First(Query(store, u))

SameFields(a, b) ==
    /\ a.user_id = b.user_id
    /\ a.conversation_id = b.conversation_id
    /\ a.agent_key = b.agent_key
    /\ a.state = b.state

\* C1: set(session) followed immediately by get(session.user_id), within
\* the timeout, returns the user_id, conversation_id, agent_key and state
\* that were written, and an updated_at not earlier than the one handed in,
\* whatever get/set/expire calls came before.
C1_SetThenGetRoundTrips ==
    [][(/\ call.op = "set" /\ call.ok
        /\ call'.op = "get" /\ call'.user_id = call.user_id
        /\ (timeout <= 0 \/ call'.at - call.at <= timeout))
       => (/\ call'.ok
           /\ SameFields(call'.ret, call.arg)
           /\ call'.ret.updated_at >= call.arg.updated_at)]_vars

\* C2: with timeout T > 0, a get more than T after the write returns the
\* default session of that user, the get changes no stored row, and a stored
\* conversation_id changes only in a set of that user.
C2_TimedOutReadIsDefault ==
    /\ [](\A u \in UserIds :
            (/\ call.op = "get" /\ call.ok /\ call.user_id = u
             /\ timeout > 0 /\ HasRow(u)
             /\ call.at - Row(u).updated_at > timeout)
            => call.ret = ConversationSession(u, call.at))
    /\ [][call'.op = "get" => store' = store]_vars
    /\ [][\A r \in store : \A r2 \in store' :
            (r2.user_id = r.user_id /\ r2.conversation_id # r.conversation_id)
            => (call'.op = "set" /\ call'.user_id = r.user_id)]_vars

C2_Witness ==
    /\ call.op = "get" /\ call.ok /\ call.user_id = "u1"
    /\ timeout > 0 /\ HasRow("u1")
    /\ call.at - Row("u1").updated_at > timeout
    /\ Row("u1").conversation_id = "c1"
    /\ ~Row("u1").is_expired
    /\ call.ret.conversation_id = Null

\* C3: with timeout <= 0 a get returns the stored fields whatever the clock
\* says, unless the row was marked expired; and a row becomes marked expired
\* only in an expire call for its user.
C3_NoTimeExpiryWithoutTimeout ==
    /\ [](\A u \in UserIds :
            (/\ call.op = "get" /\ call.ok /\ call.user_id = u
             /\ timeout <= 0 /\ HasRow(u) /\ ~Row(u).is_expired)
            => call.ret = RowSession(Row(u)))
    /\ [][\A r \in store : \A r2 \in store' :
            (r2.user_id = r.user_id /\ r2.is_expired /\ ~r.is_expired)
            => (call'.op = "expire" /\ call'.user_id = r.user_id)]_vars
    /\ [][\A r2 \in store' : Query(store, r2.user_id) = {} => ~r2.is_expired]_vars

C3_Witness ==
    /\ call.op = "get" /\ call.ok /\ call.user_id = "u1"
    /\ timeout <= 0 /\ HasRow("u1") /\ ~Row("u1").is_expired
    /\ call.at - Row("u1").updated_at >= MaxTime
    /\ call.ret.conversation_id = "c1"

\* C4: get fails exactly when user_id is empty, and for a non-empty user_id
\* without a stored row it returns that user_id with conversation_id null and
\* agent_key "default".
C4_GetFailsOnlyOnEmptyId ==
    call.op = "get" =>
        /\ (~call.ok) <=> (call.user_id = "")
        /\ (call.ok /\ ~HasRow(call.user_id)) =>
              /\ call.ret.user_id = call.user_id
              /\ call.ret.conversation_id = Null
              /\ call.ret.agent_key = "default"

C4_Witness ==
    /\ call.op = "get" /\ call.ok /\ call.user_id = "u1"
    /\ ~HasRow("u1") /\ HasRow("u2")
    /\ call.ret.user_id = "u1"

\* C5: the store never holds two rows with the same user_id.
C5_OneRowPerUser ==
    \A u \in UserIds : Cardinality(Query(store, u)) <= 1

C5_Witness ==
    /\ call.op = "set" /\ call.ok /\ call.user_id = "u1"
    /\ HasRow("u1") /\ Row("u1").is_expired
    /\ Row("u1").updated_at = MaxTime
    /\ HasRow("u2")

\* C6: expire changes nothing but the is_expired flag of the rows of its
\* user, and no step of the store removes a row.
C6_ExpireOnlyFlags ==
    /\ [][(call'.op = "expire" /\ call'.ok) =>
            store' = {IF r.user_id = call'.user_id
                      THEN [r EXCEPT !.is_expired = TRUE] ELSE r : r \in store}]_vars
    /\ [][\A r \in store : \E r2 \in store' :
            r2.id = r.id /\ r2.user_id = r.user_id]_vars

C6_Witness ==
    /\ call.op = "expire" /\ call.ok /\ call.user_id = "u1"
    /\ HasRow("u1") /\ Row("u1").is_expired
    /\ Row("u1").conversation_id = "c1"
    /\ Row("u1").state = "selecting_type"
    /\ HasRow("u2") /\ ~Row("u2").is_expired

\* C7 as stated: every write of a row, set or expire, stamps updated_at with
\* the current time, and a stored updated_at never decreases.
C7_EveryWriteStamps ==
    /\ [](\A u \in UserIds :
            (call.op \in {"set", "expire"} /\ call.ok /\ call.user_id = u /\ HasRow(u))
            => Row(u).updated_at = call.at)
    /\ [][\A r \in store : \A r2 \in store' :
            r2.user_id = r.user_id => r2.updated_at >= r.updated_at]_vars

\* C7 as amended: set stamps updated_at with the current time, expire leaves
\* updated_at as it was, and a stored updated_at never decreases.
C7_SetStampsExpireKeeps ==
    /\ [](\A u \in UserIds :
            (call.op = "set" /\ call.ok /\ call.user_id = u)
            => (HasRow(u) /\ Row(u).updated_at = call.at))
    /\ [][call'.op = "expire" =>
            \A r \in store : \A r2 \in store' :
                r2.user_id = r.user_id => r2.updated_at = r.updated_at]_vars
    /\ [][\A r \in store : \A r2 \in store' :
            r2.user_id = r.user_id => r2.updated_at >= r.updated_at]_vars

C7_Witness ==
    /\ call.op = "expire" /\ call.ok /\ call.user_id = "u1"
    /\ HasRow("u1") /\ Row("u1").is_expired
    /\ Row("u1").updated_at < call.at


\* ===================================================================
\* Properties of the streamed-response parser (specification SpecParse)
\* ===================================================================

IsData(l) == l.prefix = "data:"
IsFragment(l) == IsData(l) /\ l.payload.kind = "object"
IsSentinel(l) == IsData(l) /\ l.payload.kind = "done"
IsMalformed(l) == IsData(l) /\ l.payload.kind = "garbage"
IsMessage(l) == IsFragment(l) /\ l.payload.event = "message"
IsMessageEnd(l) == IsFragment(l) /\ l.payload.event = "message_end"
IsError(l) == IsFragment(l) /\ l.payload.event = "error"

MaxOf(I) == CHOOSE i \in I : \A j \in I : j <= i

\* The answers of the message fragments of s, in order.
RECURSIVE AnswersOf(_)
AnswersOf(s) ==
    IF s = <<>> THEN <<>>
    ELSE (IF IsMessage(Head(s)) THEN Head(s).payload.answer ELSE <<>>) \o AnswersOf(Tail(s))

\* The token of the last message fragment that carries one.
LastToken(s) ==
    LET I == {i \in 1..Len(s) : IsMessage(s[i]) /\ s[i].payload.conversation_id # Absent}
    IN IF I = {} THEN "" ELSE s[MaxOf(I)].payload.conversation_id

\* The metadata block of the last message_end fragment.
LastMessageEndMetadata(s) ==
    LET I == {i \in 1..Len(s) : IsMessageEnd(s[i])}
    IN IF I = {} THEN Absent ELSE s[MaxOf(I)].payload.metadata

\* The metadata block of the last message_end fragment that has a non-empty one.
LastNonEmptyMetadata(s) ==
    LET I == {i \in 1..Len(s) : IsMessageEnd(s[i])
                                /\ s[i].payload.metadata \notin {Absent, EmptyMeta}}
    IN IF I = {} THEN Absent ELSE s[MaxOf(I)].payload.metadata

\* Only data: fragments, none of them an error, then the sentinel.
FragmentsThenDone(s) ==
    /\ Len(s) >= 1
    /\ IsSentinel(s[Len(s)])
    /\ \A i \in 1..(Len(s) - 1) : IsFragment(s[i]) /\ ~IsError(s[i])

\* The same, with lines that do not start with data: allowed in between.
CleanThenDone(s) ==
    /\ Len(s) >= 1
    /\ IsSentinel(s[Len(s)])
    /\ \A i \in 1..(Len(s) - 1) : ~IsData(s[i]) \/ (IsFragment(s[i]) /\ ~IsError(s[i]))

\* C8 as stated: for data: fragments without an error fragment that end with
\* the sentinel, the parser returns the concatenated answers, the metadata
\* block of the message_end fragment and the token of the last message
\* fragment that carried one.
C8_ParseReturnsMessageEndBlock ==
    (parsed.status # "idle" /\ FragmentsThenDone(stream)) =>
        /\ parsed.status = "returned"
        /\ parsed.response_text = AnswersOf(stream)
        /\ parsed.conversation_id = LastToken(stream)
        /\ parsed.metadata = LastMessageEndMetadata(stream)

\* C8 as amended: the metadata returned is the block of the last message_end
\* fragment whose block is not empty, and none when there is no such fragment;
\* text and token are as stated, and lines without the data: prefix and
\* fragments with another discriminator change nothing.
C8_ParseReturnsLastNonEmptyBlock ==
    (parsed.status # "idle" /\ CleanThenDone(stream)) =>
        /\ parsed.status = "returned"
        /\ parsed.response_text = AnswersOf(stream)
        /\ parsed.conversation_id = LastToken(stream)
        /\ parsed.metadata = LastNonEmptyMetadata(stream)

C8_Witness ==
    /\ parsed.status = "returned"
    /\ Len(stream) = 4
    /\ IsMessage(stream[1]) /\ stream[1].payload.conversation_id = "c1"
    /\ IsMessage(stream[2]) /\ stream[2].payload.conversation_id = "c2"
    /\ IsMessageEnd(stream[3])
    /\ IsSentinel(stream[4])
    /\ parsed.response_text = <<"a", "b">>
    /\ parsed.conversation_id = "c2"
    /\ parsed.metadata = "m1"

\* C9 as stated: an error fragment with message m at any position of the
\* stream makes the parse fail with an error containing m and return nothing.
C9_ErrorAnywhereFails ==
    parsed.status # "idle" =>
        \A i \in 1..Len(stream) :
            (IsError(stream[i]) /\ stream[i].payload.message # Absent) =>
                /\ parsed = Raised("Dify API Error", stream[i].payload.message)

\* The parser stops reading at the sentinel, a malformed fragment or an error fragment.
Stops(l) == IsSentinel(l) \/ IsMalformed(l) \/ IsError(l)

\* C9 as amended: an error fragment with message m that is preceded by no
\* sentinel, no malformed fragment and no other error fragment makes the parse
\* fail with an error containing m and return no text, token or metadata,
\* however many message fragments came before it.
C9_FirstErrorFails ==
    parsed.status # "idle" =>
        \A i \in 1..Len(stream) :
            (/\ IsError(stream[i]) /\ stream[i].payload.message # Absent
             /\ \A j \in 1..(i - 1) : ~Stops(stream[j])) =>
                /\ parsed = Raised("Dify API Error", stream[i].payload.message)

C9_Witness ==
    /\ parsed.status = "raised"
    /\ parsed.errmsg = "boom"
    /\ Len(stream) = 3
    /\ IsMessage(stream[1]) /\ stream[1].payload.answer = <<"a">>
    /\ IsMessage(stream[2]) /\ stream[2].payload.conversation_id = "c1"
    /\ IsError(stream[3])


\* ===================================================================
\* Properties of DifyAgent.invoke (specification SpecInvoke)
\* ===================================================================

Invoked == outcome # NotInvoked

\* C10: an agent of type TextGenerator or Workflow never returns a
\* (conversation_id, text, data) result from invoke: every request, status and
\* body ends in an exception.
C10_PlaceholdersAlwaysFail ==
    (Invoked /\ req.type \in {"TextGenerator", "Workflow"}) =>
        /\ outcome.result.status = "raised"
        /\ outcome.result.response_text = <<>>

C10_Witness ==
    /\ Invoked
    /\ req.type = "TextGenerator"
    /\ resp.status = 200 /\ resp.body.kind = "json" /\ resp.body.doc.answer = <<"a">>
    /\ outcome.processed
    /\ outcome.result = Raised("Exception", "TextGenerator is not supported for now.")


Is2xx(status) == status >= 200 /\ status <= 299
IsHTTPError(result) ==
    result.status = "raised" /\ result.err \in {"ClientResponseError", "ContentTypeError"}

\* C11: once the chat-messages request is posted, a status outside 2xx makes
\* invoke raise an HTTP error without running the response processor of the
\* configured type, and a 2xx status makes the response processor run.
C11_Non2xxRaisesBeforeParsing ==
    (Invoked /\ outcome.posted) =>
        /\ ~Is2xx(resp.status) => (IsHTTPError(outcome.result) /\ ~outcome.processed)
        /\ Is2xx(resp.status) => outcome.processed

\* C18: the posted request carries conversation_id exactly when the caller
\* passed a non-empty token without start_as_new, and then it is that token.
C18_ConversationIdAttached ==
    (Invoked /\ outcome.posted) =>
        /\ (outcome.payloads.conversation_id # Absent)
              <=> (req.conversation_id \notin {Null, ""} /\ ~req.start_as_new)
        /\ (outcome.payloads.conversation_id # Absent)
              => outcome.payloads.conversation_id = req.conversation_id

C18_Witness ==
    /\ Invoked /\ outcome.posted
    /\ req.conversation_id = "c1" /\ ~req.start_as_new
    /\ outcome.payloads.conversation_id = "c1"

EmptyQuery(text) == text = Null \/ text = ""

\* C19 as stated: with an empty caller query and an attachment supplied the
\* posted request has the query ".", and a non-empty caller query is passed
\* through unchanged.
C19_PlaceholderWhenImageSupplied ==
    (Invoked /\ outcome.posted) =>
        /\ (EmptyQuery(req.text) /\ req.image # Null) => outcome.payloads.query = "."
        /\ ~EmptyQuery(req.text) => outcome.payloads.query = req.text

\* C19 as amended: with an empty caller query and an attachment whose upload
\* returned a non-empty id the posted request carries the file and the query
\* "."; when the upload returned an empty id the request carries no file and
\* the query stays empty; a non-empty caller query is passed through unchanged.
C19_PlaceholderWhenFileAttached ==
    (Invoked /\ outcome.posted) =>
        /\ (EmptyQuery(req.text) /\ req.image # Null /\ resp.upload # "")
              => (outcome.payloads.query = "." /\ outcome.payloads.files = resp.upload)
        /\ (EmptyQuery(req.text) /\ req.image # Null /\ resp.upload = "")
              => (outcome.payloads.query = "" /\ outcome.payloads.files = Absent)
        /\ ~EmptyQuery(req.text) => outcome.payloads.query = req.text

C19_Witness ==
    /\ Invoked /\ outcome.posted
    /\ req.text = Null /\ req.image = "png" /\ resp.upload = "file1"
    /\ outcome.payloads.query = "." /\ outcome.payloads.files = "file1"


\* -------------------------------------------------------------------
\* Properties of LineDifyIntegrator (SpecPipeline)
\* -------------------------------------------------------------------

\* The steps of handle_message_event that can raise, and those of them that
\* come before the session is bound.
HandlerSteps == {"parse", "load", "inputs", "lookup", "invoke", "save", "reply"}
BeforeLoad == {"parse", "load"}

\* The handling of the current event of d is over; its reply is not yet sent.
Concluded(d) == pc[d].at = "send"

\* C12: when a step of the handling of a message event raises, the error hook
\* is called exactly once for the event; its session argument is null exactly
\* when the step came before the session was loaded, and otherwise it is the
\* session loaded for the event's user.
C12_ErrorHookOnceWithLoadedSession ==
    \A d \in Deliveries :
        (Concluded(d) /\ cur[d].failedAt \in HandlerSteps) =>
            /\ Len(cur[d].hook) = 1
            /\ cur[d].hook[1].null <=> cur[d].failedAt \in BeforeLoad
            /\ ~cur[d].hook[1].null =>
                 /\ cur[d].hook[1].session = loc[d].conversation_session
                 /\ cur[d].hook[1].session.user_id = Event(d).user_id

C12_Witness ==
    \E d \in Deliveries :
        /\ Concluded(d)
        /\ cur[d].failedAt = "save"
        /\ Len(cur[d].hook) = 1
        /\ ~cur[d].hook[1].null
        /\ cur[d].hook[1].session.conversation_id = "c2"

\* C13: when the error hook itself raises while an event's failure is being
\* handled, the exception goes no further: no reply is sent for the event and
\* process_request does not end with the exception (it goes on to the
\* remaining events of the delivery).
C13_HookFailureSwallowed ==
    \A d \in Deliveries :
        cur[d].hookRaised =>
            /\ cur[d].sends = <<>>
            /\ pc[d].at # "crashed"

\* The current event of d is a message of a kind without parser that has
\* passed validation and reached handle_message_event.
UnmappedKind(d) ==
    /\ pc[d].at \notin {"next", "done"}
    /\ Event(d).type = "message"
    /\ Event(d).kind \notin MessageParsers
    /\ cur[d].validation = "empty"

\* C14: a message event whose content kind has no registered parser fails at
\* the parser lookup, before the session is loaded and before the agent is
\* invoked; the failure becomes the reply of the error hook (no reply when the
\* hook raises), and process_request goes on to the next event.
C14_UnmappedKindFailsEarly ==
    /\ [](\A d \in Deliveries :
            UnmappedKind(d) =>
                /\ pc[d].at \in {"parse", "inner_except", "send"}
                /\ ~loc[d].loaded /\ ~cur[d].invoked /\ ~cur[d].wrote
                /\ Concluded(d) =>
                     /\ cur[d].failedAt = "parse"
                     /\ Len(cur[d].hook) = 1
                     /\ loc[d].reply_messages =
                            IF cur[d].hookRaised THEN <<>> ELSE <<Msg("error", <<>>)>>)
    /\ [][\A d \in Deliveries :
            (UnmappedKind(d) /\ Concluded(d)) =>
                pc'[d] = [i |-> pc[d].i + 1, at |-> "next"]]_vars

C14_Witness ==
    \E d \in Deliveries :
        /\ pc[d] = [i |-> 2, at |-> "next"]
        /\ Len(events[d]) = 2
        /\ events[d][1].kind = "video"
        /\ cur[d].failedAt = "parse"
        /\ loc[d].ex = "Unhandled message type"
        /\ Len(cur[d].sends) = 1
        /\ cur[d].sends[1].messages = <<Msg("error", <<>>)>>

\* C15: when the reply_message call for an event's reply fails, the error
\* hook is not called for it and no second call is made: an event has at most
\* one send attempt, and after the attempt process_request is at the next
\* event whatever the attempt's outcome.
C15_SendFailureNotRetried ==
    /\ [](\A d \in Deliveries : Len(cur[d].sends) <= 1)
    /\ [][\A d \in Deliveries :
            Concluded(d) =>
                /\ cur'[d].hook = cur[d].hook
                /\ cur'[d].hookRaised = cur[d].hookRaised
                /\ pc'[d] = [i |-> pc[d].i + 1, at |-> "next"]]_vars

C15_Witness ==
    \E d \in Deliveries :
        /\ pc[d] = [i |-> 2, at |-> "next"]
        /\ Len(events[d]) = 2
        /\ Len(cur[d].sends) = 1
        /\ ~cur[d].sends[1].ok
        /\ cur[d].sends[1].messages = <<Msg("reply", <<"a">>)>>
        /\ cur[d].hook = <<>>

\* C16: when validate_event returns a non-empty reply list, process_event
\* returns exactly that list and calls no handler, registered or default, so
\* the event reads no session, invokes no agent and writes no session; when
\* it returns nothing, the event goes to the handler registered for its type,
\* or to the default handler when no handler is registered for the type.
C16_ValidationShortCircuits ==
    \A d \in Deliveries :
        /\ cur[d].validation = "reply" =>
              /\ cur[d].handler = "none"
              /\ ~loc[d].loaded /\ ~cur[d].invoked /\ ~cur[d].wrote
              /\ cur[d].hook = <<>>
              /\ pc[d].at \in {"send", "next", "done"}
              /\ loc[d].reply_messages = <<Msg("validation", <<>>)>>
        /\ (cur[d].validation = "empty" /\ pc[d].at \notin {"next", "done"}) =>
              /\ Event(d).type \in EventHandlers =>
                    (cur[d].handler = Event(d).type /\ pc[d].at # "default_handler")
              /\ Event(d).type \notin EventHandlers =>
                    (cur[d].handler = "default" /\ pc[d].at \in {"default_handler", "send"})

C16_Witness ==
    \E d \in Deliveries :
        /\ Concluded(d)
        /\ Event(d).type = "message"
        /\ cur[d].validation = "reply"
        /\ loc[d].reply_messages = <<Msg("validation", <<>>)>>
        /\ store # {}

\* C17: the events of a delivery are processed in the delivered order and one
\* at a time: process_request moves from event i to event i+1 only when the
\* handling of event i is over and the reply_message call for it, if any, has
\* been made; every step works on the event at the current position, and a
\* reply is sent against the reply token of the event it answers.
C17_SequentialInOrder ==
    /\ [](\A d \in Deliveries :
            /\ pc[d].i \in 1..(Len(events[d]) + 1)
            /\ pc[d].i = Len(events[d]) + 1 => pc[d].at \in {"next", "done"})
    /\ [][\A d \in Deliveries :
            /\ pc'[d].i # pc[d].i =>
                  /\ Concluded(d)
                  /\ pc'[d] = [i |-> pc[d].i + 1, at |-> "next"]
            /\ pc'[d].at = "validate" => (pc[d].at = "next" /\ cur'[d] = NoRecord)
            /\ (cur'[d].sends # cur[d].sends /\ cur'[d].sends # <<>>) =>
                  /\ Concluded(d)
                  /\ cur'[d].sends = <<[token |-> TokenOf(d, pc[d].i),
                                        messages |-> loc[d].reply_messages,
                                        ok |-> cur'[d].sends[1].ok]>>]_vars

C17_Witness ==
    \E d \in Deliveries :
        /\ pc[d].at = "done"
        /\ Len(events[d]) >= 2
        /\ \A i \in 1..Len(events[d]) : events[d][i].reply_token # 0
        /\ Len(cur[d].sends) = 1
        /\ cur[d].sends[1].token = TokenOf(d, Len(events[d]))
        /\ cur[d].sends[1].ok

\* The key of the session of the current event of d, a null or empty key
\* counting as "default".
SessionAgentKey(d) ==
    IF loc[d].conversation_session.agent_key \in {Null, ""}
    THEN "default" ELSE loc[d].conversation_session.agent_key

\* C20: the agent configuration used for a message event is the one under the
\* session's agent_key when the key is in the configured map, and the one
\* under "default" otherwise; the lookup does not fail when the session's
\* agent_key is a configured key.
C20_AgentResolvedByKey ==
    \A d \in Deliveries :
        /\ cur[d].invoked =>
              cur[d].agent = IF SessionAgentKey(d) \in config.dify_agents
                             THEN SessionAgentKey(d) ELSE "default"
        /\ (loc[d].loaded /\ SessionAgentKey(d) \in config.dify_agents) =>
              cur[d].failedAt # "lookup"

\* -------------------------------------------------------------------
\* Further properties of process_agent_response (SpecParse)
\* -------------------------------------------------------------------

\* Line k of s is the first [DONE] sentinel of s.
FirstSentinel(s, k) == IsSentinel(s[k]) /\ \A j \in 1..(k - 1) : ~IsSentinel(s[j])

\* C24: the parser stops at the first [DONE] sentinel: the result for a stream
\* is the result for its prefix up to that sentinel, so that the lines behind
\* the sentinel, message, malformed and error fragments included, change
\* neither the text, the token nor the metadata returned and make no parse
\* fail that the prefix does not make fail.
C24_StopsAtFirstDone ==
    parsed.status # "idle" =>
        \A k \in 1..Len(stream) :
            FirstSentinel(stream, k) =>
                /\ parsed = ProcessAgentResponse(SubSeq(stream, 1, k))
                /\ (\A j \in 1..(k - 1) : ~Stops(stream[j])) =>
                      /\ parsed.status = "returned"
                      /\ parsed.response_text = AnswersOf(SubSeq(stream, 1, k - 1))
                      /\ parsed.conversation_id = LastToken(SubSeq(stream, 1, k - 1))
                      /\ parsed.metadata = LastNonEmptyMetadata(SubSeq(stream, 1, k - 1))

C24_Witness ==
    /\ Len(stream) = 4
    /\ IsMessage(stream[1]) /\ stream[1].payload.answer = <<"a">>
    /\ stream[1].payload.conversation_id = "c1"
    /\ IsSentinel(stream[2])
    /\ IsError(stream[3])
    /\ IsMessage(stream[4]) /\ stream[4].payload.answer = <<"b">>
    /\ stream[4].payload.conversation_id = "c2"
    /\ parsed = Returned("c1", <<"a">>, Absent)

\* -------------------------------------------------------------------
\* Further properties of LineDifyIntegrator (SpecPipeline, SpecConcurrent)
\* -------------------------------------------------------------------

\* The steps of handle_message_event up to and including the agent invocation
\* (the attachment upload is part of invoke).
StepsBeforeWrite == {"parse", "load", "inputs", "lookup", "invoke"}

\* C23: the default message handler writes the session at most once per event
\* and only after the agent invocation has returned a result: the store
\* changes only in the session write of an event that has invoked the agent,
\* got a result and not written yet, so an event that fails at the content
\* parse, the session load, the input hook, the attachment upload or the agent
\* invocation leaves every stored row as it was.
C23_WriteOnlyAfterInvoke ==
    /\ [](\A d \in Deliveries : cur[d].failedAt \in StepsBeforeWrite => ~cur[d].wrote)
    /\ [][store' # store =>
            \E d \in Deliveries :
                /\ pc[d].at = "save" /\ pc'[d].at = "reply"
                /\ cur[d].invoked
                /\ cur[d].failedAt = "none"
                /\ loc[d].result.status = "returned"
                /\ ~cur[d].wrote /\ cur'[d].wrote]_vars

C23_Witness ==
    \E d \in Deliveries :
        /\ Concluded(d)
        /\ cur[d].failedAt = "invoke"
        /\ loc[d].ex = "UploadError"
        /\ pc[d].i = 2
        /\ issued["u1"] = "c2"
        /\ \E row \in store : row.user_id = "u1" /\ row.conversation_id = "c2"

\* C22: once a message event of a user has been handled with the agent
\* returning token c (and the session written), the next message event of the
\* user that posts a request to the agent sends c as its conversation id. No
\* time passes and expire_session is not called between the events of a
\* delivery; the user's history before the delivery is any of PipelineStores,
\* a row marked expired included.
C22_NextTurnSendsToken ==
    \A d \in Deliveries :
        (/\ cur[d].posted /\ ~cur[d].wrote
         /\ issued[loc[d].conversation_session.user_id] \notin {Null, ""}) =>
            cur[d].sent = issued[loc[d].conversation_session.user_id]

\* The conversation id stored for user u ("" when there is no row).
StoredToken(rows, u) ==
    IF Query(rows, u) = {} THEN "" ELSE First(Query(rows, u)).conversation_id

\* Delivery d has written the session of an event and has started no later
\* event since (cur[d] is reset when d starts an event).
WroteLast(d) == cur[d].wrote

\* C21: the session read, the agent invocation and the session write of a
\* message event are separate steps, and the write stores the session read
\* for the event with the token the agent returned for it, whatever another
\* delivery has written in between: the write that lands last wins. With two
\* deliveries for one user the state is reachable (C21_Witness) where both
\* have sent the same stored token and the token written by one of them is
\* no longer the stored one.
C21_LaterWriteWins ==
    /\ [](\A u \in UserIds : issued[u] # Null => StoredToken(store, u) = issued[u])
    /\ [](\A d \in Deliveries :
            (WroteLast(d) /\ StoredToken(store, loc[d].conversation_session.user_id)
                                # loc[d].result.conversation_id) =>
                \E e \in Deliveries \ {d} :
                    /\ WroteLast(e)
                    /\ loc[e].conversation_session.user_id = loc[d].conversation_session.user_id
                    /\ StoredToken(store, loc[e].conversation_session.user_id)
                           = loc[e].result.conversation_id)
    /\ [][\A d \in Deliveries :
            (pc[d].at = "save" /\ pc'[d].at = "reply") =>
                LET u == loc[d].conversation_session.user_id IN
                /\ StoredToken(store', u) = loc[d].result.conversation_id
                /\ First(Query(store', u)).agent_key = loc[d].conversation_session.agent_key
                /\ First(Query(store', u)).state = loc[d].conversation_session.state
                /\ issued'[u] = loc[d].result.conversation_id]_vars

C21_Witness ==
    \E d \in Deliveries, e \in Deliveries :
        /\ d # e
        /\ WroteLast(d) /\ WroteLast(e)
        /\ loc[d].conversation_session.user_id = "u1"
        /\ loc[e].conversation_session.user_id = "u1"
        /\ cur[d].sent = "c1" /\ cur[e].sent = "c1"
        /\ loc[d].result.conversation_id = "c2"
        /\ loc[e].result.conversation_id = "c3"
        /\ StoredToken(store, "u1") = "c3"

====
